---------------------------- MODULE Spec2Model ----------------------------
(***************************************************************************)
(* A model of tcx2csv.py: the conversion of a TCX document (an XML tree)   *)
(* into a comma-separated text file with lap and track markers.            *)
(*                                                                         *)
(* Text.  A Python str is a sequence of tokens.  A token is a string that  *)
(* stands for one character (",", " ", "\n", "\t") or for a run of         *)
(* characters that holds no comma and no line break and neither starts nor *)
(* ends with white space ("1.5", "New Lap").  The empty str is << >>.      *)
(*                                                                         *)
(* Documents.  An ElementTree is the sequence of its elements in document  *)
(* order (pre-order); each element carries its local name, its namespace   *)
(* URI ("" for none), its depth (the root has depth 0) and its text        *)
(* (<< >> when the element has no text: Python's None and '' are both      *)
(* false in the test of get_element_text).  An element is named by its     *)
(* index in the sequence; 0 is Python's None.                              *)
(***************************************************************************)
EXTENDS Integers, Sequences, FiniteSets, TLC

VARIABLES
    inp,         \* the parameters the input document was built from
    doc,         \* the input document (the tree et.parse returns)
    runs,        \* how many times the program is invoked on it
    run,         \* the number of the current invocation
    fs,          \* the content of the output file (all that was written)
    fs_start,    \* its content when the current invocation started
    pc,          \* the position of main
    namespace,   \* main's local: "{uri}" or ""
    activities,  \* main's local: the Activities element
    activity,    \* main's local: the Activity element
    li, ti, pi,  \* how many elements the three for loops have taken
    fout,        \* whether the output file is open
    did_open,    \* whether this invocation has opened the output file
    stdout,      \* what the invocations have printed, in order
    exc,         \* the exception this invocation raised (NoExc for none)
    nw,          \* the number of writes this invocation has made
    prev,        \* the outcome <<exc, nw>> of the previous invocation
    data         \* main's local: the values of the last trackpoint

vars == <<inp, doc, runs, run, fs, fs_start, pc, namespace, activities,
          activity, li, ti, pi, fout, did_open, stdout, exc, nw, prev, data>>

----------------------------------------------------------------------------
(* Bounds of the model. *)

MaxRuns == 2
MaxLaps == 2
MaxTracks == 2
MaxPoints == 2
MaxBody == 3

----------------------------------------------------------------------------
(* Sequences and text. *)

Range(s) == {s[k] : k \in 1..Len(s)}

RECURSIVE Flatten(_)
Flatten(ss) == IF ss = <<>> THEN <<>> ELSE Head(ss) \o Flatten(Tail(ss))

IsPrefix(s, t) == Len(s) <= Len(t) /\ SubSeq(t, 1, Len(s)) = s

WhiteSpace == {" ", "\n", "\t"}

\* str.strip(): the text without its leading and trailing white space.
strip_none(text) == text

strip(text) ==
    LET ink == {k \in 1..Len(text) : text[k] \notin WhiteSpace}
    IN  IF ink = {} THEN <<>>
        ELSE SubSeq(text, CHOOSE k \in ink : \A j \in ink : k <= j,
                          CHOOSE k \in ink : \A j \in ink : j <= k)

\* sep.join(parts), for a list of str.
RECURSIVE join_trailing(_, _)
join_trailing(sep, parts) ==
    IF parts = <<>> THEN <<>>
    ELSE Head(parts) \o sep \o join_trailing(sep, Tail(parts))

RECURSIVE join(_, _)
join(sep, parts) ==
    IF parts = <<>> THEN <<>>
    ELSE IF Len(parts) = 1 THEN Head(parts)
    ELSE Head(parts) \o sep \o join(sep, Tail(parts))

\* The characters of a text, as one string.
RECURSIVE Render(_)
Render(text) == IF text = <<>> THEN "" ELSE Head(text) \o Render(Tail(text))

\* The lines of a file content: the runs of tokens each "\n" ends (a last
\* run that no "\n" ends is a line too).
RECURSIVE SplitLines(_, _)
SplitLines(text, cur) ==
    IF text = <<>> THEN (IF cur = <<>> THEN <<>> ELSE <<cur>>)
    ELSE IF Head(text) = "\n" THEN <<cur>> \o SplitLines(Tail(text), <<>>)
    ELSE SplitLines(Tail(text), Append(cur, Head(text)))

Lines(text) == SplitLines(text, <<>>)

\* The number of comma-separated fields of a line.
FieldCount(line) == 1 + Cardinality({k \in 1..Len(line) : line[k] = ","})

----------------------------------------------------------------------------
(* The attribute map.  A dict is the sequence of its items in insertion    *)
(* order; an item holds its key and either a column name (a leaf) or a     *)
(* nested dict.                                                            *)

Leaf(key, col) == [key |-> key, isdict |-> FALSE, col |-> col, sub |-> <<>>]
Group(key, sub) == [key |-> key, isdict |-> TRUE, col |-> "", sub |-> sub]

attributes ==
    << Leaf("Time", "Time"),
       Group("Position", << Leaf("LatitudeDegrees", "LatitudeDegrees"),
                            Leaf("LongitudeDegrees", "LongitudeDegrees") >>),
       Leaf("AltitudeMeters", "AltitudeMeters"),
       Group("HeartRateBpm", << Leaf("Value", "HRBpm") >>),
       Leaf("Cadence", "Cadence"),
       Group("Extensions",
             << Group("TPX", << Leaf("Speed", "Speed"),
                                Leaf("Watts", "Watts"),
                                Leaf("Grade", "Grade") >>) >>) >>

----------------------------------------------------------------------------
(* ElementTree. *)

Node(name, ns, depth, text) ==
    [name |-> name, ns |-> ns, depth |-> depth, text |-> text]

\* Element.tag: "{uri}local", or "local" without a namespace.
Tag(n) == IF n.ns = "" THEN n.name ELSE "{" \o n.ns \o "}" \o n.name

\* The last element of the subtree of element i.
SubtreeEnd(d, i) ==
    LET stop == {k \in (i + 1)..Len(d) : d[k].depth <= d[i].depth}
    IN  IF stop = {} THEN Len(d)
        ELSE (CHOOSE k \in stop : \A j \in stop : k <= j) - 1

\* The children of element i, in document order.
Children(d, i) ==
    SelectSeq([k \in 1..(SubtreeEnd(d, i) - i) |-> i + k],
              LAMBDA k : d[k].depth = d[i].depth + 1)

\* len(element): the number of its children.
len(d, i) == Len(Children(d, i))

\* Whether an element matches a tag of find(): the tag itself, or "{*}local"
\* for the local name in any namespace or none.
TagMatchesNoNs(n, tag) ==
    tag = Tag(n) \/ (n.ns = "" /\ tag = "{*}" \o n.name)

TagMatches(n, tag) == tag = Tag(n) \/ tag = "{*}" \o n.name

\* element.find(tag): the first child that matches, or None.
find_last(d, i, tag) ==
    LET hits == SelectSeq(Children(d, i), LAMBDA k : TagMatches(d[k], tag))
    IN  IF hits = <<>> THEN 0 ELSE hits[Len(hits)]

find(d, i, tag) ==
    LET hits == SelectSeq(Children(d, i), LAMBDA k : TagMatches(d[k], tag))
    IN  IF hits = <<>> THEN 0 ELSE hits[1]

\* element.iter(tag): the element and its descendants, in document order,
\* whose tag is tag.
iter_children(d, i, tag) ==
    SelectSeq(Children(d, i), LAMBDA k : Tag(d[k]) = tag)

iter(d, i, tag) ==
    SelectSeq([k \in 1..(SubtreeEnd(d, i) - i + 1) |-> i + k - 1],
              LAMBDA k : Tag(d[k]) = tag)

----------------------------------------------------------------------------
(* extract_headers, extract_trackpoint_data, get_element_text. *)

RECURSIVE extract_headers(_)
extract_headers(attr_dict) ==
    IF attr_dict = <<>> THEN <<>>
    ELSE LET item == Head(attr_dict)
         IN  (IF item.isdict THEN extract_headers(item.sub)
              ELSE << <<item.col>> >>)
             \o extract_headers(Tail(attr_dict))

get_element_text(d, element, tag) ==
    IF element = 0 THEN <<>>
    ELSE LET child == find(d, element, tag)
         IN  IF child # 0 /\ d[child].text # <<>>
             THEN strip(d[child].text) ELSE <<>>

RECURSIVE extract_attribute(_, _, _)
extract_attribute(d, element, attr_dict) ==
    IF attr_dict = <<>> THEN <<>>
    ELSE LET item == Head(attr_dict)
             child == IF element # 0
                      THEN find(d, element, "{*}" \o item.key) ELSE 0
         IN  (IF item.isdict THEN extract_attribute(d, child, item.sub)
              ELSE << get_element_text(d, element, "{*}" \o item.key) >>)
             \o extract_attribute(d, element, Tail(attr_dict))

extract_trackpoint_data(d, trackpoint) ==
    extract_attribute(d, trackpoint, attributes)

----------------------------------------------------------------------------
(* The input documents.  A document is built from its parameters: the root *)
(* element's name and namespace, the shape of what lies between the root   *)
(* and the laps (kind), the elements below the processed Activity (body),  *)
(* and what each Trackpoint holds.                                         *)

\* The field elements of a full Trackpoint, in document order, each with
\* its depth below the Trackpoint, its text and its ancestors among them.
Field(name, depth, text, anc) ==
    [name |-> name, depth |-> depth, text |-> text, anc |-> anc]

FieldElems ==
    << Field("Time", 1, <<"2024-01-01T00:00:00Z">>, {}),
       Field("Position", 1, <<>>, {}),
       Field("LatitudeDegrees", 2, <<"1.5">>, {"Position"}),
       Field("LongitudeDegrees", 2, <<"2.5">>, {"Position"}),
       Field("AltitudeMeters", 1, <<"12.0">>, {}),
       Field("HeartRateBpm", 1, <<>>, {}),
       Field("Value", 2, <<"150">>, {"HeartRateBpm"}),
       Field("Cadence", 1, <<"80">>, {}),
       Field("Extensions", 1, <<>>, {}),
       Field("TPX", 2, <<>>, {"Extensions"}),
       Field("Speed", 3, <<"3.5">>, {"Extensions", "TPX"}),
       Field("Watts", 3, <<"200">>, {"Extensions", "TPX"}),
       Field("Grade", 3, <<"0.5">>, {"Extensions", "TPX"}) >>

FieldNames == {FieldElems[k].name : k \in 1..Len(FieldElems)}

\* The leaves, in the order of the columns.
LeafNames ==
    << "Time", "LatitudeDegrees", "LongitudeDegrees", "AltitudeMeters",
       "Value", "Cadence", "Speed", "Watts", "Grade" >>

FieldOf(name) == FieldElems[CHOOSE k \in 1..Len(FieldElems) :
                                FieldElems[k].name = name]

Namespaces == {"", "A", "B"}

\* A namespace other than ns.
OtherNs(ns) == IF ns = "" THEN "B" ELSE IF ns = "A" THEN "" ELSE "A"

NoSpecial == [leaf |-> "", text |-> <<>>, trimmed |-> <<>>]

\* The text of a leaf as the document holds it.
LeafText(p, e, stamp) ==
    IF e.name \in p.emptied THEN <<>>
    ELSE IF p.special.leaf = e.name THEN p.special.text
    ELSE LET t == IF e.name = "Time" /\ stamp # "" THEN <<stamp>> ELSE e.text
         IN  IF p.pad THEN <<"\n", " ">> \o t \o <<" ", "\n">> ELSE t

\* The elements below a Trackpoint at depth d0.
TrackpointFields(p, d0, stamp) ==
    LET kept == SelectSeq(FieldElems,
                          LAMBDA e : e.name \notin p.removed
                                     /\ e.anc \cap p.removed = {})
    IN  [k \in 1..Len(kept) |->
            Node(kept[k].name,
                 IF kept[k].name \in p.foreign THEN OtherNs(p.rns) ELSE p.rns,
                 d0 + kept[k].depth,
                 IF kept[k].text = <<>> THEN <<>>
                 ELSE LeafText(p, kept[k], stamp))]

\* The elements of a body placed at depth base; a Trackpoint is followed
\* by its field elements.  mark is the index of the one body element that
\* lies in another namespace (0 for none), pre what its Time texts start
\* with ("" to keep the default text).
BodyNodes(p, body, base, mark, pre) ==
    Flatten([k \in 1..Len(body) |->
        << Node(body[k].name,
                IF k = mark THEN OtherNs(p.rns) ELSE p.rns,
                base + body[k].depth, <<>>) >>
        \o (IF body[k].name = "Trackpoint"
            THEN TrackpointFields(p, base + body[k].depth,
                                  IF pre = "" THEN "" ELSE pre \o ToString(k))
            ELSE <<>>)])

B(name, depth) == [name |-> name, depth |-> depth]

\* The body of the Activity that follows the first one where there are two.
SecondBody == << B("Lap", 0), B("Track", 1), B("Trackpoint", 2) >>

Kinds ==
    { "ok", "two", "empty_activity", "foreign_activity", "no_activity",
      "empty_activities", "foreign_activities", "no_activities", "bare" }

BuildDoc(p) ==
    LET root == << Node(p.rootname, p.rns, 0, <<>>) >>
        pre  == IF p.fam = "walk" THEN "t" ELSE ""
        acts(ns) == << Node("Activities", ns, 1, <<>>) >>
        act(ns)  == << Node("Activity", ns, 2, <<>>) >>
        first    == BodyNodes(p, p.body, 3, p.mark, pre)
        second   == BodyNodes(p, SecondBody, 3, 0, "u")
    IN  CASE p.kind = "ok" ->
               root \o acts(p.rns) \o act(p.rns) \o first
          [] p.kind = "two" ->
               root \o acts(p.rns) \o act(p.rns) \o first
                    \o act(p.rns) \o second
          [] p.kind = "empty_activity" ->
               root \o acts(p.rns) \o act(p.rns) \o act(p.rns) \o first
          [] p.kind = "foreign_activity" ->
               root \o acts(p.rns) \o act(OtherNs(p.rns)) \o second
                    \o act(p.rns) \o first
          [] p.kind = "no_activity" ->
               root \o acts(p.rns) \o << Node("Folders", p.rns, 2, <<>>) >>
          [] p.kind = "empty_activities" ->
               root \o acts(p.rns) \o acts(p.rns) \o act(p.rns) \o first
          [] p.kind = "foreign_activities" ->
               root \o acts(OtherNs(p.rns)) \o act(p.rns) \o first
          [] p.kind = "no_activities" ->
               root \o << Node("Author", p.rns, 1, <<>>) >>
          [] p.kind = "bare" -> root

\* A body of L laps, each of T tracks of P trackpoints.
UniformBody(L, T, P) ==
    Flatten([l \in 1..L |-> << B("Lap", 0) >> \o
        Flatten([t \in 1..T |-> << B("Track", 1) >> \o
            [q \in 1..P |-> B("Trackpoint", 2)]])])

BodyNames == {"Lap", "Track", "Trackpoint"}

\* Every body of n elements: any names, any nesting.
RECURSIVE GenericBodies(_)
GenericBodies(n) ==
    IF n = 0 THEN {<<>>}
    ELSE IF n = 1 THEN {<< B(x, 0) >> : x \in BodyNames}
    ELSE UNION {{Append(b, B(x, dd)) : x \in BodyNames,
                                       dd \in 0..(b[n - 1].depth + 1)}
                : b \in GenericBodies(n - 1)}

\* Laps inside laps, tracks inside tracks, trackpoints inside trackpoints.
NestedBodies ==
    { << B("Lap", 0), B("Lap", 1), B("Track", 2), B("Trackpoint", 3) >>,
      << B("Lap", 0), B("Track", 1), B("Track", 2), B("Trackpoint", 3) >>,
      << B("Lap", 0), B("Track", 1), B("Trackpoint", 2), B("Trackpoint", 3) >>,
      << B("Lap", 0), B("Track", 1), B("Trackpoint", 2),
         B("Lap", 1), B("Track", 2), B("Trackpoint", 3) >> }

OnlyTime == FieldNames \ {"Time"}

WalkParam(rootname, rns, kind, body, mark) ==
    [fam |-> "walk", rootname |-> rootname, rns |-> rns, kind |-> kind,
     body |-> body, mark |-> mark, removed |-> OnlyTime, emptied |-> {},
     pad |-> FALSE, special |-> NoSpecial, foreign |-> {}]

FieldParam(rns, removed, emptied, pad, special, foreign) ==
    [fam |-> "fields", rootname |-> "TrainingCenterDatabase", rns |-> rns,
     kind |-> "ok", body |-> SecondBody, mark |-> 0, removed |-> removed,
     emptied |-> emptied, pad |-> pad, special |-> special,
     foreign |-> foreign]

\* Documents whose structure varies: the trackpoints hold a Time only.
WalkParams ==
    {WalkParam("TrainingCenterDatabase", rns, kind, UniformBody(L, T, P), 0) :
        rns \in {"", "A"}, kind \in {"ok", "two"},
        L \in 0..MaxLaps, T \in 0..MaxTracks, P \in 0..MaxPoints}
    \cup
    UNION {{WalkParam("TrainingCenterDatabase", "A", "ok", b, m) :
                m \in 0..Len(b)}
           : b \in NestedBodies \cup UNION {GenericBodies(n) : n \in 1..MaxBody}}

\* Documents of every kind, well-formed or not, with a small body.
SmallParams ==
    {WalkParam(rootname, rns, kind, UniformBody(1, 1, 1), 0) :
        rootname \in {"TrainingCenterDatabase", "Foo"},
        rns \in {"", "A"}, kind \in Kinds}

\* What a leaf may hold instead of its text, each with what is left of it
\* without its leading and trailing white space.
Txt(text, trimmed) == [text |-> text, trimmed |-> trimmed]

SpecialTexts ==
    { Txt(<<" ">>, <<>>),
      Txt(<<"\n", "\t">>, <<>>),
      Txt(<<"a", ",", "b">>, <<"a", ",", "b">>),
      Txt(<<"a", "\n", "b">>, <<"a", "\n", "b">>),
      Txt(<<" ", "a", " ", "b", "\n">>, <<"a", " ", "b">>),
      Txt(<<"\t", ",", " ">>, <<",">>) }

C2Removed == {"AltitudeMeters", "Cadence", "Extensions"}

\* Documents of one trackpoint whose content varies.
FieldParams ==
    {FieldParam("A", removed, {}, TRUE, NoSpecial, {}) :
        removed \in SUBSET FieldNames}
    \cup
    {FieldParam("A", removed, emptied, FALSE, NoSpecial, {}) :
        removed \in {{}, {"TPX"}, {"Position"}},
        emptied \in SUBSET Range(LeafNames)}
    \cup
    {FieldParam(rns, removed, {}, pad,
                [leaf |-> leaf, text |-> t.text, trimmed |-> t.trimmed], {}) :
        rns \in {"A"}, removed \in {{}, C2Removed}, pad \in {FALSE},
        leaf \in Range(LeafNames), t \in SpecialTexts}
    \cup
    {FieldParam(rns, removed, {}, pad, NoSpecial, foreign) :
        rns \in Namespaces, removed \in {{}, C2Removed}, pad \in BOOLEAN,
        foreign \in {{}, FieldNames} \cup {{x} : x \in FieldNames}}

\* What the output file may hold before the first invocation.
OldContent == <<"old", ",", "x", "\n">>

----------------------------------------------------------------------------
(* main. *)

\* An exception: its class and its message.
Exc(cls, msg) == [cls |-> cls, msg |-> msg]

NoExc == Exc("", "")

\* What et.parse raises: the input cannot be read, or is not well-formed.
ParseErrors ==
    { Exc("OSError", "No such file or directory: input"),
      Exc("ParseError", "syntax error: line 1, column 0") }

\* What open(output_file, 'w') raises.
OpenError == Exc("OSError", "Permission denied: output")

\* What fout.write, or the flush when the file is closed, raises.
WriteError == Exc("OSError", "No space left on device")

\* The classes of an exception (its method resolution order).
Bases(e) ==
    IF e.cls = "ParseError"
    THEN {"ParseError", "SyntaxError", "Exception", "BaseException"}
    ELSE {"OSError", "Exception", "BaseException"}

\* Whether the except clause of main handles exception e.
HandlesOnlyOSError(e) == "OSError" \in Bases(e)

Handles(e) == "Exception" \in Bases(e)

\* open(output_file, 'w'): the content of the file once opened.
open_a(content) == content

open_w(content) == <<>>

\* fout.write(text)
Write(text) ==
    /\ fs' = fs \o text
    /\ nw' = nw + 1

\* print(message); return
PrintAndReturn(message) ==
    /\ stdout' = Append(stdout, message)
    /\ pc' = "returned"

\* An exception e raised inside the try: a with block it leaves closes the
\* file; the except clause prints it and main returns, or it propagates.
Raise(e) ==
    /\ exc' = e
    /\ fout' = FALSE
    /\ IF Handles(e)
       THEN PrintAndReturn("Error processing file: " \o e.msg)
       ELSE pc' = "propagated" /\ UNCHANGED stdout

Laps == iter(doc, activity, namespace \o "Lap")
Tracks == iter(doc, Laps[li], namespace \o "Track")
Trackpoints == iter(doc, Tracks[ti], namespace \o "Trackpoint")

\* Whether the root is the expected one.
RootOkAny(d, ns) == TRUE

RootOk(d, ns) == Tag(d[1]) = ns \o "TrainingCenterDatabase"

Parse ==
    /\ pc = "start"
    /\ namespace' = IF doc[1].ns # "" THEN "{" \o doc[1].ns \o "}" ELSE ""
    /\ pc' = "check_root"
    /\ UNCHANGED <<inp, doc, runs, run, fs, fs_start, activities, activity,
                   li, ti, pi, fout, did_open, stdout, exc, nw, prev,
                   data>>

ParseRaises ==
    /\ pc = "start"
    /\ \E e \in ParseErrors : Raise(e)
    /\ UNCHANGED <<inp, doc, runs, run, fs, fs_start, namespace, activities,
                   activity, li, ti, pi, did_open, nw, prev,
                   data>>

CheckRoot ==
    /\ pc = "check_root"
    /\ IF ~RootOk(doc, namespace)
       THEN PrintAndReturn("Unknown root found: " \o Tag(doc[1]))
       ELSE pc' = "find_activities" /\ UNCHANGED stdout
    /\ UNCHANGED <<inp, doc, runs, run, fs, fs_start, namespace, activities,
                   activity, li, ti, pi, fout, did_open, exc, nw, prev,
                   data>>

FindActivities ==
    /\ pc = "find_activities"
    /\ activities' = find(doc, 1, namespace \o "Activities")
    /\ IF activities' = 0 \/ len(doc, activities') = 0
       THEN PrintAndReturn("Unable to find Activities under root")
       ELSE pc' = "find_activity" /\ UNCHANGED stdout
    /\ UNCHANGED <<inp, doc, runs, run, fs, fs_start, namespace, activity,
                   li, ti, pi, fout, did_open, exc, nw, prev,
                   data>>

FindActivity ==
    /\ pc = "find_activity"
    /\ activity' = find(doc, activities, namespace \o "Activity")
    /\ IF activity' = 0 \/ len(doc, activity') = 0
       THEN PrintAndReturn("Unable to find Activity under Activities")
       ELSE pc' = "open" /\ UNCHANGED stdout
    /\ UNCHANGED <<inp, doc, runs, run, fs, fs_start, namespace, activities,
                   li, ti, pi, fout, did_open, exc, nw, prev,
                   data>>

Open ==
    /\ pc = "open"
    /\ fs' = open_w(fs)
    /\ fout' = TRUE
    /\ did_open' = TRUE
    /\ pc' = "header"
    /\ UNCHANGED <<inp, doc, runs, run, fs_start, namespace, activities,
                   activity, li, ti, pi, stdout, exc, nw, prev,
                   data>>

OpenRaises ==
    /\ pc = "open"
    /\ Raise(OpenError)
    /\ UNCHANGED <<inp, doc, runs, run, fs, fs_start, namespace, activities,
                   activity, li, ti, pi, did_open, nw, prev,
                   data>>

WriteHeader ==
    /\ pc = "header"
    /\ Write(join(<<",">>, extract_headers(attributes)) \o <<"\n">>)
    /\ pc' = "laps"
    /\ UNCHANGED <<inp, doc, runs, run, fs_start, namespace, activities,
                   activity, li, ti, pi, fout, did_open, stdout, exc, prev,
                   data>>

\* for lap in activity.iter(namespace + 'Lap'), and the end of the with block
NextLap ==
    /\ pc = "laps"
    /\ IF li < Len(Laps)
       THEN /\ li' = li + 1
            /\ ti' = 0
            /\ Write(<<"New Lap", "\n">>)
            /\ pc' = "tracks"
            /\ UNCHANGED fout
       ELSE /\ fout' = FALSE
            /\ pc' = "returned"
            /\ UNCHANGED <<li, ti, fs, nw>>
    /\ UNCHANGED <<inp, doc, runs, run, fs_start, namespace, activities,
                   activity, pi, did_open, stdout, exc, prev,
                   data>>

\* for track in lap.iter(namespace + 'Track')
NextTrack ==
    /\ pc = "tracks"
    /\ IF ti < Len(Tracks)
       THEN /\ ti' = ti + 1
            /\ pi' = 0
            /\ Write(<<"New Track", "\n">>)
            /\ pc' = "points"
       ELSE /\ pc' = "laps"
            /\ UNCHANGED <<ti, pi, fs, nw>>
    /\ UNCHANGED <<inp, doc, runs, run, fs_start, namespace, activities,
                   activity, li, fout, did_open, stdout, exc, prev,
                   data>>

\* for trackpoint in track.iter(namespace + 'Trackpoint')
NextTrackpoint ==
    /\ pc = "points"
    /\ IF pi < Len(Trackpoints)
       THEN /\ pi' = pi + 1
            /\ LET values == extract_trackpoint_data(doc, Trackpoints[pi + 1])
               IN  /\ data' = values
                   /\ Write(join(<<",">>, values) \o <<"\n">>)
            /\ UNCHANGED pc
       ELSE /\ pc' = "tracks"
            /\ UNCHANGED <<pi, fs, nw, data>>
    /\ UNCHANGED <<inp, doc, runs, run, fs_start, namespace, activities,
                   activity, li, ti, fout, did_open, stdout, exc, prev>>

\* A write (or the flush when the file is closed) fails.
WriteRaises ==
    /\ pc \in {"header", "laps", "tracks", "points"}
    /\ Raise(WriteError)
    /\ UNCHANGED <<inp, doc, runs, run, fs, fs_start, namespace, activities,
                   activity, li, ti, pi, did_open, nw, prev,
                   data>>

\* The program is invoked again, on the same input and output paths.
Rerun ==
    /\ pc = "returned"
    /\ run < runs
    /\ run' = run + 1
    /\ prev' = <<exc, nw>>
    /\ fs_start' = fs
    /\ pc' = "start"
    /\ namespace' = ""
    /\ activities' = 0
    /\ activity' = 0
    /\ li' = 0 /\ ti' = 0 /\ pi' = 0
    /\ did_open' = FALSE
    /\ exc' = NoExc
    /\ nw' = 0
    /\ data' = <<>>
    /\ UNCHANGED <<inp, doc, runs, fs, fout, stdout>>

Next ==
    \/ Parse \/ ParseRaises \/ CheckRoot \/ FindActivities \/ FindActivity
    \/ Open \/ OpenRaises \/ WriteHeader \/ NextLap \/ NextTrack
    \/ NextTrackpoint \/ WriteRaises \/ Rerun

InitWith(params, content, n) ==
    /\ inp \in params
    /\ doc = BuildDoc(inp)
    /\ runs \in n
    /\ run = 1
    /\ fs \in content
    /\ fs_start = fs
    /\ pc = "start"
    /\ namespace = ""
    /\ activities = 0
    /\ activity = 0
    /\ li = 0 /\ ti = 0 /\ pi = 0
    /\ fout = FALSE
    /\ did_open = FALSE
    /\ stdout = <<>>
    /\ exc = NoExc
    /\ nw = 0
    /\ prev = <<NoExc, 0>>
    /\ data = <<>>

InitSmall == InitWith(SmallParams, {<<>>, OldContent}, 1..MaxRuns)

Init == InitSmall \/ InitWith(WalkParams, {OldContent}, {1})

InitFields == InitSmall \/ InitWith(FieldParams, {OldContent}, {1})

Spec == Init /\ [][Next]_vars

SpecFields == InitFields /\ [][Next]_vars

----------------------------------------------------------------------------
(* What the claims speak of, stated on the document itself. *)

Last(s) == s[Len(s)]

\* Whether element a is element x or one of its ancestors.
Contains(d, a, x) ==
    a <= x /\ \A k \in (a + 1)..x : d[k].depth > d[a].depth

\* The parent of element k (0 for the root).
Parent(d, k) ==
    LET up == {j \in 1..(k - 1) : d[j].depth = d[k].depth - 1}
    IN  IF up = {} THEN 0 ELSE CHOOSE j \in up : \A i \in up : i <= j

\* The elements of a set of indices, in document order.
RECURSIVE InOrder(_)
InOrder(S) ==
    IF S = {} THEN <<>>
    ELSE LET m == CHOOSE k \in S : \A j \in S : k <= j
         IN  <<m>> \o InOrder(S \ {m})

\* The children of element a named name in the namespace of the root.
Named(d, a, name) ==
    {k \in 1..Len(d) : Parent(d, k) = a /\ d[k].name = name
                       /\ d[k].ns = d[1].ns}

First(S) == IF S = {} THEN 0 ELSE CHOOSE k \in S : \A j \in S : k <= j

TheActivities(d) == First(Named(d, 1, "Activities"))

TheActivity(d) ==
    IF TheActivities(d) = 0 THEN 0
    ELSE First(Named(d, TheActivities(d), "Activity"))

Childless(d, a) == \A k \in 1..Len(d) : Parent(d, k) # a

RootMismatch(d) == d[1].name # "TrainingCenterDatabase"

NoActivities(d) ==
    TheActivities(d) = 0 \/ Childless(d, TheActivities(d))

NoActivity(d) == TheActivity(d) = 0 \/ Childless(d, TheActivity(d))

\* A valid document: none of the three structural mismatches.
Valid(d) == ~RootMismatch(d) /\ ~NoActivities(d) /\ ~NoActivity(d)

\* The elements named name, in the namespace of the root, at or below a.
Below(d, a, name) ==
    {k \in 1..Len(d) : Contains(d, a, k) /\ d[k].name = name
                       /\ d[k].ns = d[1].ns}

HeaderLine ==
    << "Time", ",", "LatitudeDegrees", ",", "LongitudeDegrees", ",",
       "AltitudeMeters", ",", "HRBpm", ",", "Cadence", ",", "Speed", ",",
       "Watts", ",", "Grade" >>

LapLine == <<"New Lap">>
TrackLine == <<"New Track">>

RowLine(d, q) == join(<<",">>, extract_trackpoint_data(d, q))

\* The lines of the output for a valid document, from its structure.
ExpectedLines(d) ==
    LET laps == InOrder(Below(d, TheActivity(d), "Lap"))
        tracks(l) == InOrder(Below(d, l, "Track"))
        points(t) == InOrder(Below(d, t, "Trackpoint"))
        ofTrack(t) == <<TrackLine>>
                      \o [q \in 1..Len(points(t)) |-> RowLine(d, points(t)[q])]
        ofLap(l) == <<LapLine>>
                    \o Flatten([t \in 1..Len(tracks(l)) |->
                                   ofTrack(tracks(l)[t])])
    IN  <<HeaderLine>> \o Flatten([l \in 1..Len(laps) |-> ofLap(laps[l])])

\* How many lines of a file content are the given line.
Count(text, line) ==
    Cardinality({k \in 1..Len(Lines(text)) : Lines(text)[k] = line})

\* The invocation has returned after writing all it had to write.
Completed == pc = "returned" /\ did_open /\ exc = NoExc

\* A position of main other than having let an exception through.
Positions ==
    { "start", "check_root", "find_activities", "find_activity", "open",
      "header", "laps", "tracks", "points", "returned" }

----------------------------------------------------------------------------
(* C1.  Every data row main writes has as many comma-separated fields as   *)
(* the header row, nine, whatever text the field elements hold.            *)
C1_ColumnCount ==
    Completed =>
        \A k \in 2..Len(Lines(fs)) :
            Lines(fs)[k] \notin {LapLine, TrackLine} =>
                /\ FieldCount(Lines(fs)[k]) = FieldCount(Lines(fs)[1])
                /\ FieldCount(Lines(fs)[k]) = 9

----------------------------------------------------------------------------
(* C2.  A trackpoint with Time, Position/LatitudeDegrees,                  *)
(* Position/LongitudeDegrees and HeartRateBpm/Value, and without           *)
(* AltitudeMeters, Cadence and Extensions.                                 *)

C2Case ==
    /\ inp.fam = "fields"
    /\ C2Removed \subseteq inp.removed
    /\ inp.removed \subseteq C2Removed \cup {"TPX", "Speed", "Watts", "Grade"}
    /\ inp.emptied = {}
    /\ inp.special = NoSpecial

\* C2 as amended: the line written for that trackpoint is
\* 2024-01-01T00:00:00Z,1.5,2.5,,150,,,, (eight commas, nine fields), in
\* the order and with the field count of the header.
C2_Row ==
    (C2Case /\ Completed) =>
        /\ Len(Lines(fs)) = 4
        /\ Render(Lines(fs)[4]) = "2024-01-01T00:00:00Z,1.5,2.5,,150,,,,"
        /\ Render(Lines(fs)[1]) =
             "Time,LatitudeDegrees,LongitudeDegrees,AltitudeMeters,HRBpm,Cadence,Speed,Watts,Grade"
        /\ FieldCount(Lines(fs)[4]) = FieldCount(Lines(fs)[1])

\* C2 as stated: the line is 2024-01-01T00:00:00Z,1.5,2.5,,150,,,,, (nine
\* commas) and has the field count of the header.
C2_RowAsStated ==
    (C2Case /\ Completed) =>
        /\ Render(Lines(fs)[4]) = "2024-01-01T00:00:00Z,1.5,2.5,,150,,,,,"
        /\ FieldCount(Lines(fs)[4]) = FieldCount(Lines(fs)[1])

C2_Witness ==
    C2Case /\ Completed /\ inp.pad /\ inp.rns = "A" /\ Len(Lines(fs)) = 4

----------------------------------------------------------------------------
(* C3.  While main writes, the lines of the output are the first lines of: *)
(* the header, then for each Lap in document order New Lap, then for each  *)
(* Track in it in document order New Track, then the rows of the Track's   *)
(* Trackpoints in document order; when main has returned they are all of   *)
(* these lines, the header is the first line and no other, and for L laps  *)
(* of T tracks of P trackpoints each there are 1 + L + L*T + L*T*P lines.  *)
C3_LineOrder ==
    (did_open /\ exc = NoExc) =>
        LET out  == Lines(fs)
            act  == TheActivity(doc)
            laps == Below(doc, act, "Lap")
            Ts   == {Cardinality(Below(doc, l, "Track")) : l \in laps}
            Ps   == UNION {{Cardinality(Below(doc, t, "Trackpoint")) :
                               t \in Below(doc, l, "Track")} : l \in laps}
            L    == Cardinality(laps)
            T    == IF Ts = {} THEN 0 ELSE CHOOSE x \in Ts : TRUE
            P    == IF Ps = {} THEN 0 ELSE CHOOSE x \in Ps : TRUE
        IN  /\ IsPrefix(out, ExpectedLines(doc))
            /\ Completed =>
                 /\ out = ExpectedLines(doc)
                 /\ out[1] = HeaderLine
                 /\ Count(fs, HeaderLine) = 1
                 /\ (Cardinality(Ts) <= 1 /\ Cardinality(Ps) <= 1) =>
                       Len(out) = 1 + L + L * T + L * T * P

\* Two laps of one track of two trackpoints each: nine lines.
C3_Witness ==
    /\ Completed
    /\ inp.body = UniformBody(2, 1, 2)
    /\ Len(Lines(fs)) = 9
    /\ Lines(fs)[5] # Lines(fs)[4]

----------------------------------------------------------------------------
(* C4.  The output holds one New Lap line per Lap, one New Track line per  *)
(* Track under a Lap and one row per Trackpoint under a Track under a Lap  *)
(* of the processed Activity, at any nesting depth.                        *)
C4_OnePerElement ==
    Completed =>
        LET laps   == Below(doc, TheActivity(doc), "Lap")
            tracks == UNION {Below(doc, l, "Track") : l \in laps}
            points == UNION {Below(doc, t, "Trackpoint") : t \in tracks}
        IN  /\ Count(fs, LapLine) = Cardinality(laps)
            /\ Count(fs, TrackLine) = Cardinality(tracks)
            /\ \A q \in points : Count(fs, RowLine(doc, q)) = 1

----------------------------------------------------------------------------
\* The value of a leaf's column, from the parameters of the document.
ExpectedCell(p, leaf) ==
    IF \/ leaf \in p.removed
       \/ FieldOf(leaf).anc \cap p.removed # {}
       \/ leaf \in p.emptied
    THEN <<>>
    ELSE IF p.special.leaf = leaf THEN p.special.trimmed
    ELSE FieldOf(leaf).text

(* C5.  Whatever field elements a Trackpoint lacks, and whichever of its   *)
(* leaves have no text, extract_trackpoint_data returns nine values: the   *)
(* empty string for a leaf that is removed, lies below a removed element   *)
(* or has no text, and for every other leaf its text without leading and   *)
(* trailing white space.                                                   *)
C5_AbsencePropagation ==
    (inp.fam = "fields" /\ pi >= 1) =>
        /\ Len(data) = 9
        /\ \A c \in 1..9 : data[c] = ExpectedCell(inp, LeafNames[c])

C5_Witness ==
    /\ inp.fam = "fields" /\ pi = 1 /\ inp.pad
    /\ inp.removed = {"Position", "Cadence", "TPX", "Watts"}
    /\ data[1] # <<>> /\ data[2] = <<>> /\ data[5] # <<>>

----------------------------------------------------------------------------
(* C6.  The rows do not depend on namespaces: a document yields the rows   *)
(* of the document that differs from it only in that no element has a      *)
(* namespace, whatever the namespace of the document and whichever field   *)
(* elements of the Trackpoint lie in another namespace.                    *)
C6_NamespaceAgnostic ==
    (inp.fam = "fields" /\ Completed) =>
        LET plain == BuildDoc([inp EXCEPT !.rns = "", !.foreign = {}])
            q == CHOOSE k \in 1..Len(plain) : plain[k].name = "Trackpoint"
        IN  /\ data = extract_trackpoint_data(plain, q)
            /\ Lines(fs) = << HeaderLine, LapLine, TrackLine >>
                           \o Lines(RowLine(plain, q) \o <<"\n">>)

C6_Witness ==
    /\ inp.fam = "fields" /\ Completed
    /\ inp.rns = "A" /\ inp.foreign = {"Speed"} /\ inp.removed = {}
    /\ data[7] = <<"3.5">> /\ data[1] # <<>>

----------------------------------------------------------------------------
\* The message of a structural mismatch.
MismatchMessage(d) ==
    IF RootMismatch(d) THEN "Unknown root found: " \o Tag(d[1])
    ELSE IF NoActivities(d) THEN "Unable to find Activities under root"
    ELSE "Unable to find Activity under Activities"

(* C7.  On a structural mismatch main never opens the output file, whose   *)
(* content stays what it was, and returns after printing the message of    *)
(* the mismatch.                                                           *)
C7_MismatchNoOutput ==
    ~Valid(doc) =>
        /\ ~did_open /\ ~fout
        /\ fs = fs_start
        /\ pc \in {"start", "check_root", "find_activities", "find_activity",
                   "returned"}
        /\ (pc = "returned" /\ exc = NoExc) =>
              (stdout # <<>> /\ Last(stdout) = MismatchMessage(doc))

C7_Witness ==
    /\ pc = "returned" /\ exc = NoExc /\ run = 1
    /\ RootMismatch(doc) /\ doc[1].ns = "A" /\ inp.kind = "ok"
    /\ fs = OldContent
    /\ stdout = << "Unknown root found: {A}Foo" >>

----------------------------------------------------------------------------
\* main has let no exception through; once it has returned the output file
\* is closed and an exception raised was reported with its message.
C8_Safe ==
    /\ pc \in Positions
    /\ pc = "returned" =>
         /\ ~fout
         /\ exc # NoExc =>
              (stdout # <<>> /\
               Last(stdout) = "Error processing file: " \o exc.msg)

\* What is left to do, as a tuple that every step makes smaller in the
\* lexicographic order.
PcRank ==
    CASE pc = "start" -> 7
      [] pc = "check_root" -> 6
      [] pc = "find_activities" -> 5
      [] pc = "find_activity" -> 4
      [] pc = "open" -> 3
      [] pc = "header" -> 2
      [] pc \in {"laps", "tracks", "points"} -> 1
      [] OTHER -> 0

\* (A loop over the elements of a document takes at most as many elements
\* as the document has.)
Measure ==
    << runs - run,
       PcRank,
       IF PcRank = 1 THEN Len(doc) - li ELSE 0,
       IF pc \in {"tracks", "points"} THEN 1 + Len(doc) - ti ELSE 0,
       IF pc = "points" THEN 1 + Len(doc) - pi ELSE 0 >>

LexLess(a, b) ==
    \E k \in 1..Len(a) :
        /\ a[k] < b[k]
        /\ \A j \in 1..(k - 1) : a[j] = b[j]

(* C8.  main never lets an exception through; when it has returned the     *)
(* output file is closed and an exception raised was reported with its     *)
(* message; and every step of an invocation brings its return nearer, so   *)
(* every invocation returns.                                               *)
C8_AlwaysReturns ==
    /\ [](C8_Safe /\ \A k \in 1..5 : Measure[k] >= 0)
    /\ [][LexLess(Measure', Measure)]_vars

C8_Witness ==
    /\ pc = "returned" /\ exc = WriteError /\ did_open /\ nw = 2 /\ ~fout
    /\ Last(stdout) = "Error processing file: No space left on device"

----------------------------------------------------------------------------
(* C9.  An invocation that follows another on the same input, and ends as  *)
(* the one before it ended (the same exception or none, after as many      *)
(* writes), leaves the output file with the content the one before left.   *)
C9_Idempotent ==
    (run >= 2 /\ pc = "returned" /\ <<exc, nw>> = prev) => fs = fs_start

C9_Witness ==
    /\ run = 2 /\ Completed /\ prev = <<NoExc, 4>> /\ nw = 4
    /\ Len(Lines(fs)) = 4 /\ fs = fs_start

----------------------------------------------------------------------------
(* C10.  Only the first Activity child of Activities in the namespace of   *)
(* the root is processed: no trackpoint outside it has its row in the      *)
(* output and the New Lap lines are as many as its laps; and when it has   *)
(* no child main prints that no Activity was found and opens no file,      *)
(* whatever another Activity holds.                                        *)
C10_FirstActivityOnly ==
    /\ Completed =>
         /\ activity = TheActivity(doc)
         /\ Count(fs, LapLine) =
              Cardinality(Below(doc, TheActivity(doc), "Lap"))
         /\ \A k \in 1..Len(doc) :
              (/\ doc[k].name = "Time"
               /\ doc[k].text # <<>>
               /\ ~Contains(doc, TheActivity(doc), k))
              => doc[k].text[1] \notin Range(fs)
    /\ (/\ ~RootMismatch(doc) /\ ~NoActivities(doc)
        /\ TheActivity(doc) # 0 /\ Childless(doc, TheActivity(doc)))
       => /\ ~did_open
          /\ (pc = "returned" /\ exc = NoExc) =>
               Last(stdout) = "Unable to find Activity under Activities"

C10_Witness ==
    /\ Completed /\ inp.kind = "two" /\ nw = 4
    /\ \E k \in 1..Len(doc) :
          doc[k].name = "Time" /\ ~Contains(doc, TheActivity(doc), k)

============================================================================
